---- MODULE Spec2Model ----
(***************************************************************************)
(* The per-room session coordinator ChatRoom of src/src/models.ts: the     *)
(* live-connection set (sessions), the directory (users), the inbound      *)
(* frame dispatch, registration (which suspends while the identity is      *)
(* extracted), roster queries, ciphertext relay, disconnect and the        *)
(* self-healing broadcast.                                                 *)
(*                                                                         *)
(* A JavaScript string is a sequence of character codes.                   *)
(***************************************************************************)
EXTENDS Integers, Sequences, FiniteSets, TLC

\* ------------------------------------------------------------------ bounds
\* number of channels (WebSocket objects) the room ever accepts
NumChannels == 2
\* number of handleRegister invocations suspended at their await at once
MaxPending == 2
\* number of distinct readings of the server clock (Date.now())
NumClock == 2
\* length of the enumerated texts handed to generateUserIdFromKey
MaxLen == 3
\* number of calls of generateUserIdFromKey on one text
MaxCalls == 2

Channels == 1..NumChannels

\* ----------------------------------------------------------- string basics
Range(s) == {s[i] : i \in DOMAIN s}

\* String.prototype.includes
Includes(s, m) ==
    \E i \in 1..(Len(s) - Len(m) + 1) : SubSeq(s, i, i + Len(m) - 1) = m

\* \s of a JavaScript regular expression (the ASCII part)
IsSpace(c) == c \in {9, 10, 11, 12, 13, 32}

\* \w of a JavaScript regular expression
IsWord(c) == (c \in 48..57) \/ (c \in 65..90) \/ (c \in 97..122) \/ c = 95

\* String.prototype.trim
Trim(s) ==
    LET ns == {i \in DOMAIN s : ~IsSpace(s[i])}
    IN  IF ns = {} THEN <<>>
        ELSE SubSeq(s, CHOOSE i \in ns : \A j \in ns : i <= j,
                       CHOOSE i \in ns : \A j \in ns : j <= i)

\* String.prototype.toUpperCase / toLowerCase (ASCII)
ToUpperCase(s) ==
    [i \in 1..Len(s) |-> IF s[i] \in 97..122 THEN s[i] - 32 ELSE s[i]] \o <<>>

ToLowerCase(s) ==
    [i \in 1..Len(s) |-> IF s[i] \in 65..90 THEN s[i] + 32 ELSE s[i]] \o <<>>

\* s.replace(/\s+/g, '')
StripSpaces(s) == SelectSeq(s, LAMBDA c : ~IsSpace(c))

\* s.split(sep)[0] for a one-character separator
BeforeFirst(s, sep) ==
    LET at == {i \in DOMAIN s : s[i] = sep}
    IN  IF at = {} THEN s
        ELSE SubSeq(s, 1, (CHOOSE i \in at : \A j \in at : i <= j) - 1)

\* s.split('\n')
SplitLines(s) ==
    LET nl == {i \in DOMAIN s : s[i] = 10}
        \* the position of the k-th line feed; 0 and Len(s) + 1 bracket the text
        At(k) == IF k = 0 THEN 0
                 ELSE IF k > Cardinality(nl) THEN Len(s) + 1
                 ELSE CHOOSE p \in nl : Cardinality({q \in nl : q < p}) = k - 1
    IN  [k \in 1..(Cardinality(nl) + 1) |-> SubSeq(s, At(k - 1) + 1, At(k) - 1)] \o <<>>

\* ------------------------------------------------------- marker constants
BEGIN_PUBLIC_KEY == <<45,45,45,45,45,66,69,71,73,78,32,80,71,80,32,80,85,66,76,73,67,32,75,69,89,32,66,76,79,67,75,45,45,45,45,45>>
END_PUBLIC_KEY == <<45,45,45,45,45,69,78,68,32,80,71,80,32,80,85,66,76,73,67,32,75,69,89,32,66,76,79,67,75,45,45,45,45,45>>
BEGIN_MESSAGE == <<45,45,45,45,45,66,69,71,73,78,32,80,71,80,32,77,69,83,83,65,71,69,45,45,45,45,45>>
END_MESSAGE == <<45,45,45,45,45,69,78,68,32,80,71,80,32,77,69,83,83,65,71,69,45,45,45,45,45>>
\* 'Comment:' and 'Name:'
COMMENT_TAG == <<67,111,109,109,101,110,116,58>>
NAME_TAG == <<78,97,109,101,58>>
\* 'User_' and '@example.com'
USER_PREFIX == <<85,115,101,114,95>>
EXAMPLE_COM == <<64,101,120,97,109,112,108,101,46,99,111,109>>

isValidPGPPublicKey(publicKey) ==
    Includes(publicKey, BEGIN_PUBLIC_KEY) /\ Includes(publicKey, END_PUBLIC_KEY)

isValidPGPMessage(message) ==
    Includes(message, BEGIN_MESSAGE) /\ Includes(message, END_MESSAGE)

\* ------------------------------------------------------------ fallback id
\* A 32-bit integer is kept as its two's-complement bit pattern in two
\* 16-bit limbs, [hi, lo], so that no intermediate value leaves the range
\* of the checker's integers.
Int32Zero == [hi |-> 0, lo |-> 0]

IsNegative32(h) == h.hi >= 32768

\* ((hash << 5) - hash) + char, then hash & hash: 31 * hash + char wrapped
\* to a signed 32-bit integer
HashStep(hash, char) ==
    CHOOSE r \in {[hi |-> (31 * h.hi + ((31 * h.lo + char) \div 65536)) % 65536,
                   lo |-> (31 * h.lo + char) % 65536] : h \in {hash}} : TRUE

\* Math.abs of a 32-bit integer: the magnitude, as an unsigned bit pattern
\* (Math.abs(-2^31) is 2^31: the result is a double, not an int32)
Abs32(h) ==
    IF ~IsNegative32(h) THEN h
    ELSE IF h.lo = 0 THEN [hi |-> (65536 - h.hi) % 65536, lo |-> 0]
         ELSE [hi |-> 65535 - h.hi, lo |-> 65536 - h.lo]

HexDigit(d) == IF d < 10 THEN 48 + d ELSE 87 + d

\* Number.prototype.toString(16) of a non-negative integer
RECURSIVE ToHex(_)
ToHex(n) == IF n < 16 THEN <<HexDigit(n)>>
            ELSE Append(ToHex(n \div 16), HexDigit(n % 16))

\* String.prototype.padStart(width, '0')
RECURSIVE PadStart(_, _)
PadStart(s, width) == IF Len(s) >= width THEN s ELSE PadStart(<<48>> \o s, width)

\* toString(16) of an unsigned 32-bit magnitude held in limbs
ToHex32(m) == IF m.hi = 0 THEN ToHex(m.lo)
              ELSE ToHex(m.hi) \o PadStart(ToHex(m.lo), 4)

\* the loop of generateUserIdFromKey over the characters from..to, entered
\* with the value hash.  The range is halved, and the value after the first
\* half is computed before the second half is entered.
RECURSIVE HashLoop(_, _, _, _)
HashLoop(publicKey, hash, from, to) ==
    IF from > to THEN hash
    ELSE IF from = to THEN HashStep(hash, publicKey[from])
    ELSE LET mid == (from + to) \div 2
         IN  CHOOSE r \in {HashLoop(publicKey, first, mid + 1, to) :
                              first \in {HashLoop(publicKey, hash, from, mid)}} : TRUE

\* an id rendered without Math.abs: toString(16) of a negative number
\* starts with a minus sign
generateUserIdFromKeyNoAbs(publicKey) ==
    PadStart((IF IsNegative32(HashLoop(publicKey, Int32Zero, 1, Len(publicKey)))
              THEN <<45>> ELSE <<>>)
             \o ToHex32(Abs32(HashLoop(publicKey, Int32Zero, 1, Len(publicKey)))), 8)

generateUserIdFromKey(publicKey) ==
    PadStart(ToHex32(Abs32(HashLoop(publicKey, Int32Zero, 1, Len(publicKey)))), 8)

\* ------------------------------------------------------------ credentials
\* The armored texts clients submit.  KeyAlice is a key the OpenPGP parser
\* accepts; KeyBob is a text it rejects (the fallback path).
KeyAlice == BEGIN_PUBLIC_KEY \o <<10,109,81,69,78,66,70,10>> \o END_PUBLIC_KEY
KeyBob == BEGIN_PUBLIC_KEY \o <<10,67,111,109,109,101,110,116,58,32,66,111,98,32,60,98,111,98,64,120,46,99,111,109,62,10>> \o END_PUBLIC_KEY
\* a string without the markers: 'not a key'
NotAKey == <<110,111,116,32,97,32,107,101,121>>

\* 'hello', and an armored ciphertext
NotAMessage == <<104,101,108,108,111>>
Ciphertext == BEGIN_MESSAGE \o <<10,104,81,69,77,65,57,10>> \o END_MESSAGE

\* The room state and the frames hold a string by name; TextOf is its text.
Strings == {"", "NotAKey", "KeyAlice", "KeyBob", "NotAMessage", "Ciphertext"}
TextOf == [h \in Strings |->
             CASE h = "KeyAlice" -> KeyAlice
               [] h = "KeyBob" -> KeyBob
               [] h = "NotAKey" -> NotAKey
               [] h = "NotAMessage" -> NotAMessage
               [] h = "Ciphertext" -> Ciphertext
               [] OTHER -> <<>>]

\* Math.random().toString(36).substr(2, 8): the values the generator yields
RandomSuffixes == {<<107,51,120,57,113,49,122,122>>, <<48,97,55,109,50,112,100,52>>}

\* openpgp's readKey, getPrimaryUser and getFingerprint: the parser is a
\* library outside the repository, a fixed function of the armored text.
readKey(armoredKey) ==
    IF armoredKey = KeyAlice
    THEN [ok |-> TRUE,
          fingerprint |-> <<48,49,50,51,52,53,54,55,56,57,97,98,99,100,101,102,48,49,50,51,52,53,54,55,56,57,97,98,99,100,101,102,48,49,50,51,52,53,54,55>>,
          userID |-> <<65,108,105,99,101,32,60,97,108,105,99,101,64,120,46,99,111,109,62>>]
    ELSE [ok |-> FALSE, fingerprint |-> <<>>, userID |-> <<>>]

\* userIdString.match(/^(.+?)\s*<([^>]+)>$/): <<>> when there is no match,
\* else <<group 1, group 2>>
MatchUserId(s) ==
    LET n == Len(s)
        FirstNonSpaceAfter(k) ==
            LET ns == {j \in (k+1)..n : ~IsSpace(s[j])}
            IN  IF ns = {} THEN 0 ELSE CHOOSE j \in ns : \A j2 \in ns : j <= j2
        Ok(k) == LET j == FirstNonSpaceAfter(k)
                 IN  /\ \A i \in 1..k : s[i] \notin {10, 13}
                     /\ j > 0 /\ s[j] = 60
                     /\ j + 1 <= n - 1
                     /\ \A i \in (j+1)..(n-1) : s[i] # 62
                     /\ s[n] = 62
        ks == {k \in 1..n : Ok(k)}
    IN  IF ks = {} THEN <<>>
        ELSE LET k == CHOOSE x \in ks : \A y \in ks : x <= y
             IN  <<SubSeq(s, 1, k), SubSeq(s, FirstNonSpaceAfter(k) + 1, n - 1)>>

\* line.match(/([\w\s]+)\s*<([^>]+)>/): <<>> when there is no match
MatchComment(s) ==
    LET n == Len(s)
        \* end of the maximal run of [\w\s] starting at i
        RunEnd(i) == LET stop == {j \in i..n : ~(IsWord(s[j]) \/ IsSpace(s[j]))}
                     IN  IF stop = {} THEN n
                         ELSE (CHOOSE j \in stop : \A j2 \in stop : j <= j2) - 1
        Close(k) == LET gt == {j \in (k+2)..n : s[j] = 62}
                    IN  IF gt = {} THEN 0 ELSE CHOOSE j \in gt : \A j2 \in gt : j <= j2
        Ok(i) == LET k == RunEnd(i)
                 IN  /\ k >= i
                     /\ k + 1 <= n /\ s[k + 1] = 60
                     /\ Close(k) >= k + 3
        is == {i \in 1..n : Ok(i)}
    IN  IF is = {} THEN <<>>
        ELSE LET i == CHOOSE x \in is : \A y \in is : x <= y
                 k == RunEnd(i)
             IN  <<SubSeq(s, i, k), SubSeq(s, k + 2, Close(k) - 1)>>

\* the for loop of fallbackExtractUserProfile over lines[i..]
RECURSIVE FallbackScan(_, _, _)
FallbackScan(lines, i, acc) ==
    IF i > Len(lines) THEN acc
    ELSE LET line == lines[i]
             m == IF Includes(line, COMMENT_TAG) \/ Includes(line, NAME_TAG)
                  THEN MatchComment(line) ELSE <<>>
         IN  FallbackScan(lines, i + 1,
                 IF m # <<>> THEN [name |-> Trim(m[1]), email |-> Trim(m[2])] ELSE acc)

\* a fallback whose id is drawn with the default name instead of hashed
fallbackExtractUserProfileRandomId(publicKey, rnd) ==
    LET name == USER_PREFIX \o rnd
        email == ToLowerCase(name) \o EXAMPLE_COM
        ne == FallbackScan(SplitLines(publicKey), 1, [name |-> name, email |-> email])
    IN  [id |-> ToLowerCase(rnd), name |-> ne.name, email |-> ne.email]

fallbackExtractUserProfile(publicKey, rnd) ==
    LET name == USER_PREFIX \o rnd
        email == ToLowerCase(name) \o EXAMPLE_COM
        id == generateUserIdFromKey(publicKey)
        ne == FallbackScan(SplitLines(publicKey), 1, [name |-> name, email |-> email])
    IN  [id |-> id, name |-> ne.name, email |-> ne.email]

extractUserProfile(publicKeyArmored, rnd) ==
    LET key == readKey(publicKeyArmored)
    IN  IF ~key.ok THEN fallbackExtractUserProfile(publicKeyArmored, rnd)
        ELSE
        LET userIdString == key.userID
            m == MatchUserId(userIdString)
            parsed == IF m # <<>> THEN [name |-> Trim(m[1]), email |-> Trim(m[2])]
                      ELSE IF 64 \in Range(userIdString)
                           THEN [name |-> BeforeFirst(Trim(userIdString), 64),
                                 email |-> Trim(userIdString)]
                           ELSE [name |-> Trim(userIdString), email |-> <<>>]
            id == ToUpperCase(key.fingerprint)
            name == IF parsed.name = <<>> THEN USER_PREFIX \o rnd ELSE parsed.name
            email == IF parsed.email = <<>>
                     THEN StripSpaces(ToLowerCase(name)) \o EXAMPLE_COM
                     ELSE parsed.email
        IN  [id |-> id, name |-> name, email |-> email]

\* the structural checks and extractUserProfile, tabulated over the strings
IsPublicKey == [h \in Strings |-> isValidPGPPublicKey(TextOf[h])]
IsMessage == [h \in Strings |-> isValidPGPMessage(TextOf[h])]
ValidKeys == {h \in Strings : IsPublicKey[h]}
ProfileOf == [h \in ValidKeys |->
                [r \in RandomSuffixes |-> extractUserProfile(TextOf[h], r)]]

\* --------------------------------------------------------------- payloads
\* A JSON value of a frame field: its typeof and, for a string, the string.
Absent == [t |-> "undefined", s |-> ""]
ANumber == [t |-> "number", s |-> ""]
Str(h) == [t |-> "string", s |-> h]

\* !value of the source, for the values above (ANumber is a non-zero number)
Falsy(v) == v.t = "undefined" \/ (v.t = "string" /\ TextOf[v.s] = <<>>)

\* event.data: json says what JSON.parse makes of it ("invalid": it throws)
Payload(json, type, publicKey, encryptedData, timestamp) ==
    [json |-> json, type |-> type, publicKey |-> publicKey,
     encryptedData |-> encryptedData, timestamp |-> timestamp]

NonObjectPayloads ==
    {Payload(j, "undefined", Absent, Absent, Absent) : j \in {"invalid", "null", "number"}}
UnknownPayloads ==
    {Payload("object", t, Absent, Absent, Absent) : t \in {"undefined", "foo"}}
RegisterPayloads ==
    {Payload("object", "register", k, Absent, Absent) :
        k \in {Absent, ANumber, Str(""), Str("NotAKey")} \cup {Str(k2) : k2 \in ValidKeys}}
GetUsersPayloads == {Payload("object", "getUsers", Absent, Absent, Absent)}
MessagePayloads ==
    {Payload("object", "message", Absent, d, Absent) :
        d \in {Absent, ANumber, Str(""), Str("NotAMessage"), Str("Ciphertext")}}
    \cup {Payload("object", "message", Absent, Str("Ciphertext"), ANumber)}
Payloads == NonObjectPayloads \cup UnknownPayloads \cup RegisterPayloads
            \cup GetUsersPayloads \cup MessagePayloads

\* Date.now(): the readings of the server clock
ClockReadings == 1..NumClock

\* ------------------------------------------------------------------ state
VARIABLES
    sessions,   \* Set<WebSocket>, in insertion order
    users,      \* Map<WebSocket, UserInfo>, in insertion order
    link,       \* per channel: "new" (not accepted yet), "open", or "closed"
                \* (send() throws)
    fired,      \* per channel: the last 'close' or 'error' event handled,
                \* or "none"
    pending,    \* handleRegister invocations suspended at their await: how
                \* many per channel and submitted key
    last,       \* the handler that ran last: [op, ws, payload]
    out,        \* what that handler did to channels: send attempts, close()
    text,       \* the argument of generateUserIdFromKey when it is run alone
    ids         \* the values its calls returned, in call order

vars == <<sessions, users, link, fired, pending, last, out, text, ids>>

\* ------------------------------------------------- Set and Map operations
SetHas(set, e) == e \in Range(set)
SetAdd(set, e) == IF SetHas(set, e) THEN set ELSE Append(set, e)
SetDelete(set, e) == SelectSeq(set, LAMBDA y : y # e)

MapKeys(map) == {map[i].webSocket : i \in DOMAIN map}
MapHas(map, ws) == ws \in MapKeys(map)
MapGet(map, ws) == map[CHOOSE i \in DOMAIN map : map[i].webSocket = ws]
MapDelete(map, ws) == SelectSeq(map, LAMBDA u : u.webSocket # ws)
MapSet(map, ws, info) ==
    IF MapHas(map, ws)
    THEN LET i == CHOOSE j \in DOMAIN map : map[j].webSocket = ws
         IN  SubSeq(map, 1, i - 1) \o <<info>> \o SubSeq(map, i + 1, Len(map))
    ELSE Append(map, info)

\* ------------------------------------------------------------ out entries
\* webSocket.send(JSON.stringify(frame)): it throws unless the link is open
Send(lnk, ws, frame) ==
    [act |-> "send", to |-> ws, ok |-> (lnk[ws] = "open"), frame |-> frame]
\* webSocket.close()
Close(ws) == [act |-> "close", to |-> ws, ok |-> TRUE, frame |-> [type |-> "none"]]

ErrorFrame(message, arg) == [type |-> "error", message |-> message, arg |-> arg]

\* an error report that goes to the oldest live channel instead of the sender
sendErrorToOldest(lnk, ws, message, arg) ==
    <<Send(lnk, IF sessions # <<>> THEN sessions[1] ELSE ws, ErrorFrame(message, arg))>>

\* sendError: the send is attempted and a throw is swallowed
sendError(lnk, ws, message, arg) == <<Send(lnk, ws, ErrorFrame(message, arg))>>

\* the projection of the directory sent in userList frames
RECURSIVE Roster(_)
Roster(usrs) ==
    IF usrs = <<>> THEN <<>>
    ELSE <<[id |-> Head(usrs).id, name |-> Head(usrs).name,
            email |-> Head(usrs).email, publicKey |-> Head(usrs).publicKey]>>
         \o Roster(Tail(usrs))

\* a lookup that compares the wrong field and so never finds the id
findUserByIdWrongField(usrs, id) ==
    LET hits == {i \in DOMAIN usrs : usrs[i].name = id}
    IN  IF hits = {} THEN <<>>
        ELSE <<usrs[CHOOSE i \in hits : \A j \in hits : i <= j]>>

findUserById(usrs, id) ==
    LET hits == {i \in DOMAIN usrs : usrs[i].id = id}
    IN  IF hits = {} THEN <<>>
        ELSE <<usrs[CHOOSE i \in hits : \A j \in hits : i <= j]>>

\* -------------------------------------------------------------- broadcast
\* this.sessions.delete(session) inside the for-of over this.sessions: the
\* entry at the iterator's position is emptied, later entries keep theirs
Tombstone == 0
\* a deletion that closes the gap, as removing from an array would
DeleteBySplice(entries, i) == SubSeq(entries, 1, i - 1) \o SubSeq(entries, i + 1, Len(entries))

DeleteWhileIterating(entries, i) == [entries EXCEPT ![i] = Tombstone]

\* the for-of loop of broadcast from position i on
RECURSIVE BroadcastLoop(_, _, _, _, _, _)
BroadcastLoop(entries, i, usrs, lnk, frame, log) ==
    IF i > Len(entries)
    THEN [sessions |-> SelectSeq(entries, LAMBDA e : e # Tombstone),
          users |-> usrs, out |-> log]
    ELSE IF entries[i] = Tombstone
    THEN BroadcastLoop(entries, i + 1, usrs, lnk, frame, log)
    ELSE LET session == entries[i]
         IN  IF lnk[session] = "open"
             THEN BroadcastLoop(entries, i + 1, usrs, lnk, frame,
                                Append(log, Send(lnk, session, frame)))
             ELSE BroadcastLoop(DeleteWhileIterating(entries, i), i + 1,
                                MapDelete(usrs, session), lnk, frame,
                                Append(log, Send(lnk, session, frame)))

\* a broadcast that drops a failed target from the sessions only
broadcastKeepDirectory(sess, usrs, lnk, frame) ==
    [sessions |-> BroadcastLoop(sess, 1, usrs, lnk, frame, <<>>).sessions,
     users |-> usrs,
     out |-> BroadcastLoop(sess, 1, usrs, lnk, frame, <<>>).out]

broadcast(sess, usrs, lnk, frame) == BroadcastLoop(sess, 1, usrs, lnk, frame, <<>>)

\* a roster push that reaches only the channels with a directory entry
broadcastUserListToRegistered(sess, usrs, lnk) ==
    LET b == broadcast(SelectSeq(sess, LAMBDA c : \E i \in DOMAIN usrs : usrs[i].webSocket = c),
                       usrs, lnk, [type |-> "userList", users |-> Roster(usrs)])
    IN  [sessions |-> SelectSeq(sess, LAMBDA c : c \in Range(b.sessions)
                                   \/ ~\E i \in DOMAIN usrs : usrs[i].webSocket = c),
         users |-> b.users, out |-> b.out]

broadcastUserList(sess, usrs, lnk) ==
    broadcast(sess, usrs, lnk, [type |-> "userList", users |-> Roster(usrs)])

\* ------------------------------------------------------------ the handlers
\* Each handler maps the room state to the state it leaves and its effects.
Result(sess, usrs, lnk, pend, log) ==
    [sessions |-> sess, users |-> usrs, link |-> lnk, pending |-> pend, out |-> log]

Unchanged(log) == Result(sessions, users, link, pending, log)

\* a disconnect that pushes the roster only when the directory changed
handleDisconnectQuietIfUnbound(ws) ==
    IF MapHas(users, ws)
    THEN LET b == broadcastUserList(SetDelete(sessions, ws), MapDelete(users, ws), link)
         IN  Result(b.sessions, b.users, link, pending, b.out)
    ELSE Result(SetDelete(sessions, ws), users, link, pending, <<>>)

handleDisconnect(ws) ==
    LET b == broadcastUserList(SetDelete(sessions, ws), MapDelete(users, ws), link)
    IN  Result(b.sessions, b.users, link, pending, b.out)

\* a roster query answered by a roster push to every live channel
handleGetUsersBroadcast(ws) ==
    LET b == broadcastUserList(sessions, users, link)
    IN  [threw |-> FALSE, res |-> Result(b.sessions, b.users, link, pending, b.out)]

handleGetUsers(ws) ==
    LET reply == Send(link, ws, [type |-> "userList", users |-> Roster(users)])
    IN  [threw |-> ~reply.ok, res |-> Unchanged(<<reply>>)]

\* a relay that forwards the client's timestamp (0 stands for its value)
\* when the frame carries one
handleChatMessageClientTimestamp(ws, message, now) ==
    IF ~MapHas(users, ws)
    THEN Unchanged(sendError(link, ws, "User not registered", ""))
    ELSE IF Falsy(message.encryptedData) \/ message.encryptedData.t # "string"
    THEN Unchanged(sendError(link, ws, "Invalid encrypted data format", ""))
    ELSE IF ~IsMessage[message.encryptedData.s]
    THEN Unchanged(sendError(link, ws, "Invalid PGP message format", ""))
    ELSE LET sender == MapGet(users, ws)
             b == broadcast(sessions, users, link,
                            [type |-> "encryptedMessage", senderId |-> sender.id,
                             encryptedData |-> message.encryptedData.s,
                             timestamp |-> IF message.timestamp.t = "number"
                                           THEN 0 ELSE now])
         IN  Result(b.sessions, b.users, link, pending, b.out)

\* a relay that validates the ciphertext before it looks the sender up
handleChatMessageValidateFirst(ws, message, now) ==
    IF Falsy(message.encryptedData) \/ message.encryptedData.t # "string"
    THEN Unchanged(sendError(link, ws, "Invalid encrypted data format", ""))
    ELSE IF ~IsMessage[message.encryptedData.s]
    THEN Unchanged(sendError(link, ws, "Invalid PGP message format", ""))
    ELSE IF ~MapHas(users, ws)
    THEN Unchanged(sendError(link, ws, "User not registered", ""))
    ELSE LET sender == MapGet(users, ws)
             b == broadcast(sessions, users, link,
                            [type |-> "encryptedMessage", senderId |-> sender.id,
                             encryptedData |-> message.encryptedData.s,
                             timestamp |-> now])
         IN  Result(b.sessions, b.users, link, pending, b.out)

handleChatMessage(ws, message, now) ==
    IF ~MapHas(users, ws)
    THEN Unchanged(sendError(link, ws, "User not registered", ""))
    ELSE IF Falsy(message.encryptedData) \/ message.encryptedData.t # "string"
    THEN Unchanged(sendError(link, ws, "Invalid encrypted data format", ""))
    ELSE IF ~IsMessage[message.encryptedData.s]
    THEN Unchanged(sendError(link, ws, "Invalid PGP message format", ""))
    ELSE LET sender == MapGet(users, ws)
             b == broadcast(sessions, users, link,
                            [type |-> "encryptedMessage", senderId |-> sender.id,
                             encryptedData |-> message.encryptedData.s,
                             timestamp |-> now])
         IN  Result(b.sessions, b.users, link, pending, b.out)

\* a validation that drops a frame without a key silently
handleRegisterStartSilent(ws, message) ==
    IF Falsy(message.publicKey) \/ message.publicKey.t # "string"
    THEN Unchanged(<<>>)
    ELSE IF ~IsPublicKey[message.publicKey.s]
    THEN Unchanged(sendError(link, ws, "Invalid PGP public key format", ""))
    ELSE Result(sessions, users, link,
                [pending EXCEPT ![<<ws, message.publicKey.s>>] = @ + 1], <<>>)

\* handleRegister up to its await
handleRegisterStart(ws, message) ==
    IF Falsy(message.publicKey) \/ message.publicKey.t # "string"
    THEN Unchanged(sendError(link, ws, "Invalid public key format", ""))
    ELSE IF ~IsPublicKey[message.publicKey.s]
    THEN Unchanged(sendError(link, ws, "Invalid PGP public key format", ""))
    ELSE Result(sessions, users, link,
                [pending EXCEPT ![<<ws, message.publicKey.s>>] = @ + 1], <<>>)

\* an eviction test that forgets the requester may hold the id itself
ShouldEvictAnyHolder(existingUser, webSocket) == existingUser # <<>>

\* existingUser && existingUser.webSocket !== webSocket
ShouldEvict(existingUser, webSocket) ==
    existingUser # <<>> /\ existingUser[1].webSocket # webSocket

\* the userInfo record handleRegister builds from the extracted profile
NewUserInfo(webSocket, publicKey, userProfile) ==
    [webSocket |-> webSocket, id |-> userProfile.id,
     name |-> userProfile.name, email |-> userProfile.email,
     publicKey |-> publicKey, role |-> "guest"]

\* an eviction that unbinds the holder but closes the requester
RegisterEvictClosesRequester(webSocket, existingUser) ==
    IF ShouldEvict(existingUser, webSocket)
    THEN [users |-> MapDelete(users, existingUser[1].webSocket),
          link |-> [link EXCEPT ![webSocket] = "closed"],
          out |-> <<Close(webSocket)>>]
    ELSE [users |-> users, link |-> link, out |-> <<>>]

\* handleRegister: the holder of the id, if it is another channel, is
\* removed from the directory and closed
RegisterEvict(webSocket, existingUser) ==
    IF ShouldEvict(existingUser, webSocket)
    THEN [users |-> MapDelete(users, existingUser[1].webSocket),
          link |-> [link EXCEPT ![existingUser[1].webSocket] = "closed"],
          out |-> <<Close(existingUser[1].webSocket)>>]
    ELSE [users |-> users, link |-> link, out |-> <<>>]

\* handleRegister: users.set, the 'registered' reply and the roster push, or
\* the catch when the reply throws
RegisterBind(webSocket, userInfo, e, rest) ==
    LET users2 == MapSet(e.users, webSocket, userInfo)
        reply == Send(e.link, webSocket,
                      [type |-> "registered",
                       profile |-> [id |-> userInfo.id, name |-> userInfo.name,
                                    email |-> userInfo.email]])
    IN  IF reply.ok
        THEN LET b == broadcastUserList(sessions, users2, e.link)
             IN  Result(b.sessions, b.users, e.link, rest, e.out \o <<reply>> \o b.out)
        ELSE Result(sessions, users2, e.link, rest,
                    e.out \o <<reply>>
                          \o sendError(e.link, webSocket, "Registration failed", ""))

\* handleRegister after the profile is known: lookup, eviction, binding
RegisterWith(webSocket, publicKey, userInfo) ==
    RegisterBind(webSocket, userInfo,
                 RegisterEvict(webSocket, findUserById(users, userInfo.id)),
                 [pending EXCEPT ![<<webSocket, publicKey>>] = @ - 1])

\* handleRegister from the await on, for a suspended invocation
handleRegisterResume(webSocket, publicKey, rnd) ==
    RegisterWith(webSocket, publicKey,
                 NewUserInfo(webSocket, publicKey, ProfileOf[publicKey][rnd]))

\* handleMessage: the switch on message.type
handleMessage(ws, message, now) ==
    CASE message.type = "register" ->
            [threw |-> FALSE, res |-> handleRegisterStart(ws, message)]
      [] message.type = "getUsers" -> handleGetUsers(ws)
      [] message.type = "message" ->
            [threw |-> FALSE, res |-> handleChatMessage(ws, message, now)]
      [] OTHER ->
            [threw |-> FALSE,
             res |-> Unchanged(sendError(link, ws, "Unknown message type: ", message.type))]

\* the 'message' listener of handleSession: JSON.parse, handleMessage, and
\* the catch around both
onMessage(ws, payload, now) ==
    IF payload.json = "invalid" \/ payload.json = "null"
    THEN \* JSON.parse throws, or message.type throws on null
         Unchanged(sendError(link, ws, "Invalid JSON format", ""))
    ELSE LET h == handleMessage(ws, payload, now)
         IN  IF h.threw
             THEN Result(h.res.sessions, h.res.users, h.res.link, h.res.pending,
                         h.res.out \o sendError(link, ws, "Invalid JSON format", ""))
             ELSE h.res

\* ----------------------------------------------------------------- actions
RECURSIVE SumOver(_, _)
SumOver(f, dom) ==
    IF dom = {} THEN 0
    ELSE LET x == CHOOSE y \in dom : TRUE IN f[x] + SumOver(f, dom \ {x})

\* the number of suspended handleRegister invocations
NumPending == SumOver(pending, DOMAIN pending)

Apply(r, op, ws, payload) ==
    /\ sessions' = r.sessions
    /\ users' = r.users
    /\ link' = r.link
    /\ pending' = r.pending
    /\ out' = r.out
    /\ last' = [op |-> op, ws |-> ws, payload |-> payload]

NoPayload == Payload("none", "undefined", Absent, Absent, Absent)

\* the room after construction
RoomInit ==
    /\ sessions = <<>>
    /\ users = <<>>
    /\ link = [c \in Channels |-> "new"]
    /\ fired = [c \in Channels |-> "none"]
    /\ pending = [x \in Channels \X ValidKeys |-> 0]
    /\ last = [op |-> "init", ws |-> 0, payload |-> NoPayload]
    /\ out = <<>>

Init == RoomInit /\ text = <<>> /\ ids = <<>>

\* fetch / handleSession: a new channel is accepted and added
Connect(c) ==
    /\ link[c] = "new"
    /\ Apply(Result(SetAdd(sessions, c), users, [link EXCEPT ![c] = "open"], pending, <<>>),
             "connect", c, NoPayload)
    /\ UNCHANGED <<fired, text, ids>>

\* a 'message' event on channel c
Frame(c, payload) ==
    /\ link[c] # "new"
    /\ fired[c] = "none"
    /\ payload.type = "register" => NumPending < MaxPending
    /\ \E now \in (IF payload.type = "message" THEN ClockReadings ELSE {1}) :
          Apply(onMessage(c, payload, now), "message", c, payload)
    /\ UNCHANGED <<fired, text, ids>>

\* the identity extraction of a suspended handleRegister completes
RegisterResume(c, key) ==
    /\ pending[<<c, key>>] > 0
    /\ \E rnd \in RandomSuffixes :
          Apply(handleRegisterResume(c, key, rnd), "registerResume", c,
                Payload("object", "register", Str(key), Absent, Absent))
    /\ UNCHANGED <<fired, text, ids>>

\* a 'close' or 'error' event on channel c ('close' is a channel's last
\* event); the transport may or may not still accept sends afterwards
Disconnect(c, event) ==
    /\ link[c] # "new"
    /\ fired[c] = "none" \/ (fired[c] = "error" /\ event = "close")
    /\ fired' = [fired EXCEPT ![c] = event]
    /\ UNCHANGED <<text, ids>>
    /\ \E lnk \in {link[c], "closed"} :
          LET r == handleDisconnect(c)
          IN  Apply(Result(r.sessions, r.users, [link EXCEPT ![c] = lnk], r.pending, r.out),
                    event, c, NoPayload)

\* the transport of channel c fails before any event is delivered
Break(c) ==
    /\ link[c] = "open"
    /\ link' = [link EXCEPT ![c] = "closed"]
    /\ last' = [op |-> "break", ws |-> c, payload |-> NoPayload]
    /\ out' = <<>>
    /\ UNCHANGED <<sessions, users, fired, pending, text, ids>>

Next ==
    \/ \E c \in Channels : Connect(c)
    \/ \E c \in Channels, p \in Payloads : Frame(c, p)
    \/ \E c \in Channels, key \in ValidKeys : RegisterResume(c, key)
    \/ \E c \in Channels, e \in {"close", "error"} : Disconnect(c, e)
    \/ \E c \in Channels : Break(c)

Spec == Init /\ [][Next]_vars

\* the step that resumes the handleRegister of channel c suspended on key:
\* the one step that takes an invocation off pending, possible exactly when
\* RegisterResume(c, key) is
Resumed(c, key) ==
    /\ pending[<<c, key>>] > 0
    /\ pending' = [pending EXCEPT ![<<c, key>>] = @ - 1]

\* extractUserProfile catches whatever the key parser throws and falls back,
\* so the promise handleRegister awaits always settles: a suspended
\* invocation is resumed
Resumption ==
    \A c \in Channels, key \in ValidKeys : WF_pending(Resumed(c, key))

FairSpec == Spec /\ Resumption

\* ------------------------------------------- generateUserIdFromKey alone
\* the character codes of the enumerated texts: a digit, a letter and the
\* largest UTF-16 code unit
Alphabet == {48, 97, 65535}

\* a text whose hash is -2^31, and one whose hash is negative
MinHashText == <<112,111,108,121,103,101,110,101,108,117,98,114,105,99,97,110,116,115>>
NegativeHashText == <<97,48,48,48,48,48>>

HashInputs ==
    {f \o <<>> : f \in UNION {[1..k -> Alphabet] : k \in 0..MaxLen}}
    \cup {MinHashText, NegativeHashText, KeyAlice, KeyBob}

HashInit == RoomInit /\ text \in HashInputs /\ ids = <<>>

\* one call of generateUserIdFromKey(text)
HashCall ==
    /\ Len(ids) < MaxCalls
    /\ ids' = Append(ids, generateUserIdFromKey(text))
    /\ UNCHANGED <<sessions, users, link, fired, pending, last, out, text>>

HashNext == HashCall

SpecHash == HashInit /\ [][HashNext]_vars

\* ------------------------------------------------------------------ claims
\* the id extractUserProfile derives from a key (no random draw enters it)
IdOf(key) == ProfileOf[key][CHOOSE r \in RandomSuffixes : TRUE].id

\* the channels bound to an identity with this id
Holders(usrs, id) == {usrs[i].webSocket : i \in {j \in DOMAIN usrs : usrs[j].id = id}}

Sends(log, type) == {i \in DOMAIN log : log[i].act = "send" /\ log[i].frame.type = type}
Closes(log) == {log[i].to : i \in {j \in DOMAIN log : log[j].act = "close"}}

\* C1: every channel with a directory entry is in the live-connection set.
C1_DirectoryWithinConnections == MapKeys(users) \subseteq Range(sessions)

\* C2: the directory holds at most one channel per identity id.
C2_OneChannelPerId ==
    \A i, j \in DOMAIN users : users[i].id = users[j].id => i = j

\* C2 witness: a registration completed while another channel's registration
\* of the same credential was still suspended
C2_Witness ==
    /\ last.op = "registerResume"
    /\ MapHas(users, last.ws)
    /\ \E c \in Channels \ {last.ws} : pending[<<c, last.payload.publicKey.s>>] > 0

\* C3: a registration on B of a credential whose id is bound to another
\* channel A (when the registration looks the id up) calls close() on A,
\* unbinds A and leaves exactly one entry for the id, bound to B; when the id
\* is bound to B itself no channel is closed.
C3_EvictionStep ==
    [][last'.op = "registerResume" =>
        LET B == last'.ws
            id == IdOf(last'.payload.publicKey.s)
            others == Holders(users, id) \ {B}
        IN  /\ \A A \in others : A \in Closes(out') /\ ~MapHas(users', A)
            /\ others # {} =>
                  /\ Holders(users', id) = {B}
                  /\ Cardinality({i \in DOMAIN users' : users'[i].id = id}) = 1
            /\ Holders(users, id) = {B} => Closes(out') = {}]_vars

\* C3 witness: a registration that closed another channel
C3_Witness ==
    /\ last.op = "registerResume"
    /\ Closes(out) # {}
    /\ MapHas(users, last.ws)

IsRelay(l, usrs) ==
    /\ l.op = "message" /\ l.payload.json = "object" /\ l.payload.type = "message"
    /\ MapHas(usrs, l.ws)
    /\ l.payload.encryptedData.t = "string" /\ IsMessage[l.payload.encryptedData.s]

\* C4: a valid message frame from a registered channel causes exactly one
\* encryptedMessage delivery attempt to every channel that is in the
\* live-connection set when the relay starts, and none to any other.
C4_RelayReachesEachOnce ==
    [][IsRelay(last', users) =>
        /\ \A c \in Range(sessions) :
              Cardinality({i \in Sends(out', "encryptedMessage") : out'[i].to = c}) = 1
        /\ \A i \in DOMAIN out' :
              i \in Sends(out', "encryptedMessage") /\ out'[i].to \in Range(sessions)]_vars

\* C4 witness: a relay in which a delivery failed and a later one succeeded
C4_Witness ==
    /\ last.op = "message" /\ last.payload.type = "message"
    /\ \E i, j \in Sends(out, "encryptedMessage") : i < j /\ ~out[i].ok /\ out[j].ok

\* C5: a registration that reports 'Registration failed' leaves the directory
\* and the connection set as they were.
C5_FailedRegistrationChangesNothing ==
    [][(/\ last'.op = "registerResume"
        /\ \E i \in Sends(out', "error") : out'[i].frame.message = "Registration failed")
       => (users' = users /\ sessions' = sessions)]_vars

\* C6: a message frame from a channel with no directory entry yields exactly
\* one send, the error 'User not registered' to that channel, whatever its
\* encryptedData, and leaves the directory and the connection set unchanged.
C6_UnregisteredSender ==
    [][(/\ last'.op = "message" /\ last'.payload.json = "object"
        /\ last'.payload.type = "message"
        /\ ~MapHas(users, last'.ws))
       => /\ out' = <<Send(link, last'.ws, ErrorFrame("User not registered", ""))>>
          /\ users' = users /\ sessions' = sessions]_vars

\* C6 witness: an unregistered channel sent a message frame whose
\* encryptedData is not a string
C6_Witness ==
    /\ last.op = "message" /\ last.payload.type = "message"
    /\ last.payload.encryptedData.t = "number"
    /\ ~MapHas(users, last.ws)
    /\ Len(out) = 1 /\ out[1].frame.type = "error"

\* C7: once a close or error event of a channel has been handled the channel
\* has no directory entry, and the roster pushed by the disconnect is the
\* directory without it.
C7_DisconnectedStaysUnbound ==
    [][/\ \A c \in Channels : fired'[c] # "none" => ~MapHas(users', c)
       /\ last'.op \in {"close", "error"} =>
             \A i \in Sends(out', "userList") :
                 out'[i].frame.users = Roster(MapDelete(users, last'.ws))]_vars

\* the directory right after users.set in a registration of key on B whose
\* registered reply carried profile
DirectoryAfterBinding(usrs, B, key, profile) ==
    MapSet(SelectSeq(usrs, LAMBDA u : u.id # profile.id \/ u.webSocket = B), B,
           [webSocket |-> B, id |-> profile.id, name |-> profile.name,
            email |-> profile.email, publicKey |-> key, role |-> "guest"])

\* C8: after a successful registration the requester is sent `registered`
\* with the bound {id, name, email} first, and then every live channel is sent
\* one userList computed from the directory after the binding.
C8_RegisteredThenRoster ==
    [][(/\ last'.op = "registerResume"
        /\ \E i \in Sends(out', "registered") : out'[i].ok)
       => LET B == last'.ws
              key == last'.payload.publicKey.s
              regs == Sends(out', "registered")
              k == CHOOSE i \in regs : TRUE
              profile == out'[k].frame.profile
              roster == Roster(DirectoryAfterBinding(users, B, key, profile))
          IN  /\ Cardinality(regs) = 1
              /\ out'[k].to = B
              /\ profile.id = IdOf(key)
              /\ \E r \in RandomSuffixes :
                    profile = [id |-> ProfileOf[key][r].id, name |-> ProfileOf[key][r].name,
                               email |-> ProfileOf[key][r].email]
              /\ \A i \in Sends(out', "userList") : i > k /\ out'[i].frame.users = roster
              /\ \A c \in Range(sessions) :
                    Cardinality({i \in Sends(out', "userList") : out'[i].to = c}) = 1
              /\ \E e \in Range(roster) : e.id = profile.id /\ e.publicKey = key
              /\ Cardinality({i \in DOMAIN roster : roster[i].id = profile.id}) = 1]_vars

\* C8 witness: a successful registration whose roster reached a live channel
\* other than the requester that has no directory entry
C8_Witness ==
    /\ last.op = "registerResume"
    /\ \E i \in Sends(out, "registered") : out[i].ok
    /\ \E i \in Sends(out, "userList") :
          out[i].ok /\ out[i].to # last.ws /\ ~MapHas(users, out[i].to)

\* C9: getUsers sends the requester a userList with one entry per directory
\* entry, sends nothing to any other channel and leaves the directory and the
\* connection set unchanged, whether or not the requester is registered.
C9_GetUsers ==
    [][(last'.op = "message" /\ last'.payload.json = "object"
        /\ last'.payload.type = "getUsers")
       => /\ Len(out') >= 1
          /\ out'[1] = Send(link, last'.ws, [type |-> "userList", users |-> Roster(users)])
          /\ Len(out'[1].frame.users) = Len(users)
          /\ Sends(out', "userList") = {1}
          /\ \A i \in DOMAIN out' : out'[i].to = last'.ws
          /\ users' = users /\ sessions' = sessions]_vars

\* C9 witness: an unregistered requester is answered with a roster whose
\* length differs from the number of live connections
C9_Witness ==
    /\ last.op = "message" /\ last.payload.type = "getUsers"
    /\ ~MapHas(users, last.ws)
    /\ Len(out) = 1 /\ out[1].ok
    /\ Len(out[1].frame.users) >= 1
    /\ Len(out[1].frame.users) # Len(sessions)

\* C10: a payload that decodes and whose type is none of register, getUsers,
\* message yields the error 'Unknown message type: <value>' to its channel
\* only, never 'Invalid JSON format'.
C10_UnknownType ==
    (/\ last.op = "message"
     /\ last.payload.json # "invalid"
     /\ last.payload.type \notin {"register", "getUsers", "message"})
    => /\ Len(out) = 1
       /\ out[1].to = last.ws
       /\ out[1].frame = ErrorFrame("Unknown message type: ", last.payload.type)

\* the frames the room rejects: a decode error, a register or message frame
\* that fails validation, a message from an unregistered channel, an unknown
\* type
IsRejected(payload, ws, usrs) ==
    \/ payload.json \in {"invalid", "null"}
    \/ /\ payload.json \notin {"invalid", "null"}
       /\ \/ payload.type \notin {"register", "getUsers", "message"}
          \/ /\ payload.type = "register"
             /\ \/ Falsy(payload.publicKey) \/ payload.publicKey.t # "string"
                \/ ~IsPublicKey[payload.publicKey.s]
          \/ /\ payload.type = "message"
             /\ \/ ~MapHas(usrs, ws)
                \/ Falsy(payload.encryptedData) \/ payload.encryptedData.t # "string"
                \/ ~IsMessage[payload.encryptedData.s]

\* C11: a rejected inbound frame yields one error frame, sent to the
\* originating channel; nothing is sent to another channel, no channel is
\* closed, and the directory and the connection set are unchanged.
C11_RejectedFrameIsLocal ==
    [][(last'.op = "message" /\ IsRejected(last'.payload, last'.ws, users))
       => /\ Len(out') = 1
          /\ out'[1].act = "send" /\ out'[1].to = last'.ws
          /\ out'[1].frame.type = "error"
          /\ Closes(out') = {}
          /\ link' = link
          /\ users' = users /\ sessions' = sessions /\ pending' = pending]_vars

\* C11 witness: a frame was rejected while another channel was live,
\* registered and reachable
C11_Witness ==
    /\ last.op = "message" /\ IsRejected(last.payload, last.ws, users)
    /\ Len(out) = 1 /\ out[1].frame.type = "error"
    /\ \E c \in Range(sessions) \ {last.ws} : MapHas(users, c) /\ link[c] = "open"

C13_RelayedFrameFields ==
    [][IsRelay(last', users) =>
        /\ \A i \in Sends(out', "encryptedMessage") :
              /\ out'[i].frame.senderId = MapGet(users, last'.ws).id
              /\ out'[i].frame.encryptedData = last'.payload.encryptedData.s
              /\ out'[i].frame.timestamp \in ClockReadings
        /\ \E now \in ClockReadings :
              out' = handleChatMessage(last'.ws,
                                       [last'.payload EXCEPT !.timestamp = Absent], now).out]_vars

\* C13 witness: a frame carrying a client timestamp was relayed and delivered
C13_Witness ==
    /\ last.op = "message" /\ last.payload.type = "message"
    /\ last.payload.timestamp.t = "number"
    /\ \E i \in Sends(out, "encryptedMessage") : out[i].ok /\ out[i].to # last.ws

\* the targets of the failed sends of a step
FailedTargets(log) == {log[i].to : i \in {j \in DOMAIN log : log[j].act = "send" /\ ~log[j].ok}}

\* a close or error event removes its channel and pushes the roster computed
\* without it, once to each remaining member of the connection set
DisconnectRemovesAndPushes(c) ==
    /\ c \notin Range(sessions') /\ ~MapHas(users', c)
    /\ Sends(out', "userList") = DOMAIN out'
    /\ \A i \in DOMAIN out' : out'[i].frame.users = Roster(MapDelete(users, c))
    /\ \A d \in Range(sessions) \ {c} :
          Cardinality({i \in DOMAIN out' : out'[i].to = d}) = 1
    /\ \A i \in DOMAIN out' : out'[i].to \in Range(sessions) \ {c}

\* C14 as stated: a close or error event removes its channel and pushes the
\* roster, also for a channel without a directory entry, and an event for a
\* channel that already had one, or that is in neither collection, leaves the
\* connection set and the directory exactly as they were.
C14_SecondEventChangesNothing ==
    [][last'.op \in {"close", "error"} =>
        /\ DisconnectRemovesAndPushes(last'.ws)
        /\ (\/ fired[last'.ws] # "none"
            \/ (last'.ws \notin Range(sessions) /\ ~MapHas(users, last'.ws)))
           => (sessions' = sessions /\ users' = users)]_vars

\* C14 amended: a close or error event removes its channel and pushes the
\* roster as above; besides the channel itself the step removes exactly the
\* targets its roster push failed to reach, from both collections, and keeps
\* every other member and entry.
C14_DisconnectRemovesOnlyFailed ==
    [][last'.op \in {"close", "error"} =>
        LET gone == {last'.ws} \cup FailedTargets(out')
        IN  /\ DisconnectRemovesAndPushes(last'.ws)
            /\ sessions' = SelectSeq(sessions, LAMBDA d : d \notin gone)
            /\ users' = SelectSeq(users, LAMBDA u : u.webSocket \notin gone)]_vars

\* C14 witness: the roster push of a disconnect failed on the other live
\* channel, which was removed with it
C14_Witness ==
    /\ last.op \in {"close", "error"}
    /\ FailedTargets(out) # {}
    /\ FailedTargets(out) \cap (Range(sessions) \cup MapKeys(users)) = {}

\* a broadcast entered with connection set S0 and directory U0: one attempt
\* per member of S0, and exactly the failed targets leave both collections
BroadcastHeals(S0, U0, bc) ==
    LET failed == {out'[i].to : i \in {j \in bc : ~out'[j].ok}}
    IN  /\ \A d \in Range(S0) : Cardinality({i \in bc : out'[i].to = d}) = 1
        /\ \A i \in bc : out'[i].to \in Range(S0)
        /\ sessions' = SelectSeq(S0, LAMBDA d : d \notin failed)
        /\ users' = SelectSeq(U0, LAMBDA u : u.webSocket \notin failed)

\* C15: in the broadcast of a relay, of a disconnect and of a successful
\* registration, a delivery failure removes exactly its target from the
\* connection set and the directory, and every other member of the
\* connection set is still attempted once and stays.
C15_BroadcastSelfHeals ==
    [][/\ IsRelay(last', users) =>
             BroadcastHeals(sessions, users, Sends(out', "encryptedMessage"))
       /\ last'.op \in {"close", "error"} =>
             BroadcastHeals(SetDelete(sessions, last'.ws), MapDelete(users, last'.ws),
                            Sends(out', "userList"))
       /\ (last'.op = "registerResume" /\ \E i \in Sends(out', "registered") : out'[i].ok) =>
             BroadcastHeals(sessions,
                            DirectoryAfterBinding(users, last'.ws, last'.payload.publicKey.s,
                                out'[CHOOSE i \in Sends(out', "registered") : TRUE].frame.profile),
                            Sends(out', "userList"))]_vars

\* C15 witness: the roster push of a registration failed on a channel with a
\* directory entry that precedes the requester, and then reached the requester
C15_Witness ==
    /\ last.op = "registerResume"
    /\ \E i, j \in Sends(out, "userList") :
          /\ i < j /\ ~out[i].ok /\ out[j].ok /\ out[j].to = last.ws
          /\ out[i].to \notin Range(sessions)
          /\ \E e \in Range(out[i].frame.users) : e.id # IdOf(last.payload.publicKey.s)
    /\ MapKeys(users) = {last.ws}

\* a channel leaves the connection set only in the step that handles its own
\* close or error event, or in a step whose send to it failed
RemovedOnlyOnSignalOrFailure ==
    \A c \in Range(sessions) \ Range(sessions') :
        \/ (last'.op \in {"close", "error"} /\ last'.ws = c)
        \/ c \in FailedTargets(out')

\* C16 as stated: the room never calls close() on a channel, and a channel
\* leaves the connection set only on its own close or error event or on a
\* delivery failure to it.
C16_NeverInitiatesTeardown ==
    [][Closes(out') = {} /\ RemovedOnlyOnSignalOrFailure]_vars

\* C16 amended: the room calls close() only in a registration, and only on
\* another channel that holds the id being registered; a channel leaves the
\* connection set only on its own close or error event or on a delivery
\* failure to it.
C16_TeardownOnlyByEviction ==
    [][/\ Closes(out') # {} =>
             /\ last'.op = "registerResume"
             /\ Closes(out') \subseteq
                   Holders(users, IdOf(last'.payload.publicKey.s)) \ {last'.ws}
       /\ RemovedOnlyOnSignalOrFailure]_vars

\* C16 witness: a registration closed the previous holder of its id and
\* answered the requester; the closed channel left the connection set through
\* the failed delivery of the roster push
C16_Witness ==
    /\ last.op = "registerResume"
    /\ Closes(out) # {}
    /\ last.ws \notin Closes(out)
    /\ \E i \in Sends(out, "registered") : out[i].ok
    /\ Closes(out) \subseteq FailedTargets(out)
    /\ Closes(out) \cap Range(sessions) = {}

\* h := 31 * h + charCode over the first n characters from 0, in unbounded
\* integers
RECURSIVE PlainFold(_, _)
PlainFold(s, n) == IF n = 0 THEN 0 ELSE 31 * PlainFold(s, n - 1) + s[n]

LowerHexDigits == (48..57) \cup (97..102)

\* C17: the fallback id of a text is 8 lowercase hexadecimal digits, the same
\* on every call; for a text short enough that the fold never leaves the
\* 32-bit range it is the zero-padded hexadecimal of the fold itself, and for
\* a text whose hash is -2^31 it is 80000000.
C17_FallbackIdShape ==
    \A i \in DOMAIN ids :
        /\ Len(ids[i]) = 8
        /\ Range(ids[i]) \subseteq LowerHexDigits
        /\ ids[i] = ids[1]
        /\ Len(text) <= 4 => ids[i] = PadStart(ToHex(PlainFold(text, Len(text))), 8)
        /\ text = MinHashText => ids[i] = <<56,48,48,48,48,48,48,48>>

\* C17 witness: the text whose hash is -2^31 was hashed on every call
C17_Witness ==
    /\ text = MinHashText
    /\ Len(ids) = MaxCalls

\* the ids of the credentials whose register frames channel c sent and whose
\* handleRegister is still suspended
AwaitedIds(c) == {IdOf(key) : key \in {k \in ValidKeys : pending[<<c, k>>] > 0}}

\* C18: frames of one channel take effect in arrival order: a valid message
\* frame that follows a valid register frame of the same channel, with no
\* close or error event in between, is not rejected with 'User not
\* registered' and is relayed under the id of that registration.
C18_FramesTakeEffectInOrder ==
    [][(/\ last'.op = "message" /\ last'.payload.json = "object"
        /\ last'.payload.type = "message"
        /\ last'.payload.encryptedData.t = "string"
        /\ IsMessage[last'.payload.encryptedData.s]
        /\ fired[last'.ws] = "none"
        /\ AwaitedIds(last'.ws) # {})
       => /\ \A i \in Sends(out', "error") :
                out'[i].frame.message # "User not registered"
          /\ \A i \in Sends(out', "encryptedMessage") :
                out'[i].frame.senderId \in AwaitedIds(last'.ws)]_vars

\* the userList frames of a step that reached channel c
RostersDelivered(log, c) == {i \in Sends(log, "userList") : log[i].to = c /\ log[i].ok}

\* C19: whenever no handleRegister is suspended, a step that changed the
\* directory has delivered to every live channel, as its latest userList
\* frame, the projection of the directory the step leaves.
C19_RosterFollowsDirectory ==
    [][(users' # users /\ \A x \in DOMAIN pending' : pending'[x] = 0)
       => \A c \in Range(sessions') :
             link'[c] = "open" =>
                /\ RostersDelivered(out', c) # {}
                /\ \A i \in RostersDelivered(out', c) :
                      (\A j \in RostersDelivered(out', c) : j <= i)
                         => out'[i].frame.users = Roster(users')]_vars

IsRegisterFrame(l) ==
    l.op = "message" /\ l.payload.json = "object" /\ l.payload.type = "register"

\* the error frames of a step with this message
ErrorsSaying(log, message) ==
    {i \in Sends(log, "error") : log[i].frame.message = message}

\* what handling a register frame does up to the await: one error to the
\* requester for a frame that fails validation, and for a valid one no send
\* yet and one more suspended invocation
RegisterFrameStep ==
    IsRegisterFrame(last') =>
        LET ws == last'.ws
            k == last'.payload.publicKey
        IN  IF Falsy(k) \/ k.t # "string"
            THEN out' = <<Send(link, ws, ErrorFrame("Invalid public key format", ""))>>
            ELSE IF ~IsPublicKey[k.s]
            THEN out' = <<Send(link, ws, ErrorFrame("Invalid PGP public key format", ""))>>
            ELSE out' = <<>> /\ pending'[<<ws, k.s>>] = pending[<<ws, k.s>>] + 1

\* the requester of a resumed registration is sent registered once, when it
\* is bound in the directory
RegisteredOnceWhenBound ==
    last'.op = "registerResume" =>
        /\ Cardinality(Sends(out', "registered")) = 1
        /\ \A i \in Sends(out', "registered") : out'[i].to = last'.ws
        /\ MapHas(users', last'.ws)
        /\ Resumed(last'.ws, last'.payload.publicKey.s)

\* an invocation leaves pending only in the step that resumes it
OnlyResumeTakesFromPending ==
    \A c \in Channels, key \in ValidKeys :
        Resumed(c, key) =>
            (last'.op = "registerResume" /\ last'.ws = c /\ last'.payload.publicKey.s = key)

\* every suspended registration is resumed
EveryRegisterResumes ==
    \A c \in Channels, key \in ValidKeys :
        pending[<<c, key>>] > 0
           ~> (last.op = "registerResume" /\ last.ws = c /\ last.payload.publicKey.s = key)

\* C20 as stated: every register frame leads to exactly one reply attempt to
\* the requester, one registered frame or one error frame and never both,
\* and registered is sent only when the requester is bound.
C20_ExactlyOneReply ==
    /\ [][/\ RegisterFrameStep
          /\ RegisteredOnceWhenBound
          /\ OnlyResumeTakesFromPending
          /\ last'.op = "registerResume" => Sends(out', "error") = {}]_vars
    /\ EveryRegisterResumes

\* C20 amended: as above, except that a registered frame whose send threw is
\* followed by one 'Registration failed' error attempt to the requester; a
\* registered frame that was sent is followed by no error.
C20_OneReplyThenFailureReport ==
    /\ [][/\ RegisterFrameStep
          /\ RegisteredOnceWhenBound
          /\ OnlyResumeTakesFromPending
          /\ last'.op = "registerResume" =>
                LET k == CHOOSE i \in Sends(out', "registered") : TRUE
                IN  IF out'[k].ok THEN Sends(out', "error") = {}
                    ELSE /\ Sends(out', "error") = {k + 1}
                         /\ out'[k + 1].to = last'.ws
                         /\ out'[k + 1].frame = ErrorFrame("Registration failed", "")]_vars
    /\ EveryRegisterResumes

\* C20 witness: a registration whose registered send threw reported
\* 'Registration failed' to a requester it had just bound
C20_Witness ==
    /\ last.op = "registerResume"
    /\ \E i \in Sends(out, "registered") : ~out[i].ok
    /\ ErrorsSaying(out, "Registration failed") # {}
    /\ MapHas(users, last.ws)
====
